---- MODULE Spec2Model ----
(***************************************************************************)
(* kopium: analysis of a CRD's OpenAPI v3 schema into a flat list of Rust  *)
(* struct definitions (src/src/main.rs).                                   *)
(*                                                                         *)
(* Strings are sequences of one-character strings, so that format!,        *)
(* starts_with, ends_with and uppercase_first_letter are computed on the   *)
(* characters as the Rust code computes them.  The recursion of analyze is *)
(* an explicit call stack: one frame per call, one action per step of the  *)
(* call.                                                                   *)
(***************************************************************************)
EXTENDS Integers, Sequences, FiniteSets, TLC

VARIABLES schema, kind, mainpc, stack, results, err, printed, calls, origin

vars == <<schema, kind, mainpc, stack, results, err, printed, calls, origin>>

----------------------------------------------------------------------------
(* String literals of the program, as character sequences.                 *)

sObject == <<"o","b","j","e","c","t">>
sString == <<"s","t","r","i","n","g">>
sBoolean == <<"b","o","o","l","e","a","n">>
sInteger == <<"i","n","t","e","g","e","r">>
sArray == <<"a","r","r","a","y">>
sEmpty == <<>>
sInt32 == <<"i","n","t","3","2">>
sInt64 == <<"i","n","t","6","4">>
sRustString == <<"S","t","r","i","n","g">>
sBool == <<"b","o","o","l">>
sI32 == <<"i","3","2">>
sI64 == <<"i","6","4">>
sUsize == <<"u","s","i","z","e">>
sVec == <<"V","e","c">>
sBTreeMap == <<"B","T","r","e","e","M","a","p">>
sSpec == <<"S","p","e","c">>

IGNORED_KEYS ==
    { <<"m","e","t","a","d","a","t","a">>,
      <<"a","p","i","V","e","r","s","i","o","n">>,
      <<"k","i","n","d">> }

(* Option<T>: None, or Some(v). *)
None == [tag |-> "None"]
Some(x) == [tag |-> "Some", v |-> x]

(* JSONSchemaPropsOrArray / JSONSchemaPropsOrBool. *)
OneSchema(s) == [tag |-> "Schema", s |-> s]
ManySchemas == [tag |-> "Schemas"]
BoolProps(b) == [tag |-> "Bool", b |-> b]

(* Result<_>: Ok(v), or Err(e) raised by bail!. *)
Ok(x) == [ok |-> TRUE, v |-> x]
Bail(e) == [ok |-> FALSE, e |-> e]

----------------------------------------------------------------------------
(* str::starts_with / str::ends_with. *)
starts_with(s, p) == Len(s) >= Len(p) /\ SubSeq(s, 1, Len(p)) = p

ends_with(s, p) == Len(s) >= Len(p) /\ SubSeq(s, Len(s) - Len(p) + 1, Len(s)) = p

(* char::to_uppercase on the characters the inputs use: a lower-case ASCII *)
(* letter gives its upper-case letter, every other character itself.      *)
to_uppercase(c) ==
    CASE c = "a" -> <<"A">> [] c = "b" -> <<"B">> [] c = "c" -> <<"C">>
      [] c = "d" -> <<"D">> [] c = "e" -> <<"E">> [] c = "f" -> <<"F">>
      [] c = "g" -> <<"G">> [] c = "h" -> <<"H">> [] c = "i" -> <<"I">>
      [] c = "j" -> <<"J">> [] c = "k" -> <<"K">> [] c = "l" -> <<"L">>
      [] c = "m" -> <<"M">> [] c = "n" -> <<"N">> [] c = "o" -> <<"O">>
      [] c = "p" -> <<"P">> [] c = "q" -> <<"Q">> [] c = "r" -> <<"R">>
      [] c = "s" -> <<"S">> [] c = "t" -> <<"T">> [] c = "u" -> <<"U">>
      [] c = "v" -> <<"V">> [] c = "w" -> <<"W">> [] c = "x" -> <<"X">>
      [] c = "y" -> <<"Y">> [] c = "z" -> <<"Z">>
      [] OTHER -> <<c>>

(* uppercase_first_letter that leaves the first character as it is. *)
uppercase_first_letter_Unchanged(s) == s

uppercase_first_letter(s) ==
    IF s = <<>> THEN <<>> ELSE to_uppercase(Head(s)) \o Tail(s)

(* The integer arm of the type match: the format decides the width. *)
IntegerType(format) ==
    IF format.tag = "Some"
    THEN IF format.v = sInt32 THEN sI32
         ELSE IF format.v = sInt64 THEN sI64
         ELSE sUsize
    ELSE sUsize

(* format!("Vec<{}>", t) *)
VecOf(t) == sVec \o <<"<">> \o t \o <<">">>

(* format!("BTreeMap<String, {}>", t) *)
BTreeMapOf(t) == sBTreeMap \o <<"<">> \o sRustString \o <<",", " ">> \o t \o <<">">>

(* format!("Option<{}>", t) *)
OptionOf(t) == <<"O","p","t","i","o","n","<">> \o t \o <<">">>

(* format!("{}{}", kind, suffix) *)
StructName(k, suffix) == k \o suffix

RECURSIVE array_recurse_for_type(_, _, _, _)
array_recurse_for_type(value, k, key, level) ==
    IF value.items.tag = "None" THEN Bail("missing items in array type")
    ELSE IF value.items.v.tag # "Schema" THEN Bail("only support single schema in array")
    ELSE LET s == value.items.v.s
             inner_array_type == s.type_
         IN  CASE inner_array_type = sObject ->
                    Ok([type |-> VecOf(StructName(k, uppercase_first_letter(key))),
                        level |-> level])
               [] inner_array_type = sString ->
                    Ok([type |-> VecOf(sRustString), level |-> level])
               [] inner_array_type = sBoolean ->
                    Ok([type |-> VecOf(sBool), level |-> level])
               [] inner_array_type = sInteger ->
                    Ok([type |-> VecOf(IntegerType(s.format)), level |-> level])
               [] inner_array_type = sArray ->
                    array_recurse_for_type(s, k, key, level + 1)
               [] OTHER -> Bail("unsupported recursive array type")

(* The dict_key of an object-typed property: Some(value type) when its     *)
(* additionalProperties is a schema, None otherwise.                       *)
DictKey(value) ==
    LET additional == value.additional_properties
    IN  IF additional.tag = "Some" /\ additional.v.tag = "Schema"
        THEN LET s == additional.v.s
                 dict_type == s.type_
             IN  CASE dict_type = sString -> Ok(Some(sRustString))
                   [] dict_type = sEmpty ->
                        IF s.x_kubernetes_int_or_string.tag = "Some"
                        THEN Ok(Some(sRustString))
                        ELSE Bail("unknown empty dict type")
                   [] OTHER -> Ok(Some(uppercase_first_letter(dict_type)))
        ELSE Ok(None)

(* RustType whose empty-type arm coerces to String without looking at the   *)
(* int-or-string marker.                                                   *)
RustType_EmptyIsString(k, key, value) ==
    LET value_type == value.type_
    IN  CASE value_type = sObject ->
               LET dict_key == DictKey(value)
               IN  IF ~dict_key.ok THEN dict_key
                   ELSE IF dict_key.v.tag = "Some"
                   THEN Ok([type |-> BTreeMapOf(dict_key.v.v), level |-> None])
                   ELSE Ok([type |-> StructName(k, uppercase_first_letter(key)),
                            level |-> None])
          [] value_type = sString -> Ok([type |-> sRustString, level |-> None])
          [] value_type = sBoolean -> Ok([type |-> sBool, level |-> None])
          [] value_type = sInteger ->
               Ok([type |-> IntegerType(value.format), level |-> None])
          [] value_type = sArray ->
               LET r == array_recurse_for_type(value, k, key, 1)
               IN  IF r.ok THEN Ok([type |-> r.v.type, level |-> Some(r.v.level)])
                   ELSE r
          [] value_type = sEmpty -> Ok([type |-> sRustString, level |-> None])
          [] OTHER -> Bail("unknown type")

(* The rust_type of one property, with the array level to remember for it  *)
(* (None unless the property is an array).                                 *)
RustType(k, key, value) ==
    LET value_type == value.type_
    IN  CASE value_type = sObject ->
               LET dict_key == DictKey(value)
               IN  IF ~dict_key.ok THEN dict_key
                   ELSE IF dict_key.v.tag = "Some"
                   THEN Ok([type |-> BTreeMapOf(dict_key.v.v), level |-> None])
                   ELSE Ok([type |-> StructName(k, uppercase_first_letter(key)),
                            level |-> None])
          [] value_type = sString -> Ok([type |-> sRustString, level |-> None])
          [] value_type = sBoolean -> Ok([type |-> sBool, level |-> None])
          [] value_type = sInteger ->
               Ok([type |-> IntegerType(value.format), level |-> None])
          [] value_type = sArray ->
               LET r == array_recurse_for_type(value, k, key, 1)
               IN  IF r.ok THEN Ok([type |-> r.v.type, level |-> Some(r.v.level)])
                   ELSE r
          [] value_type = sEmpty ->
               IF value.x_kubernetes_int_or_string.tag = "Some"
               THEN Ok([type |-> sRustString, level |-> None])
               ELSE Bail("unknown empty dict type")
          [] OTHER -> Bail("unknown type")

MapAnnot == "#[serde(default, skip_serializing_if = \"BTreeMap::is_empty\")]"
VecAnnot == "#[serde(default, skip_serializing_if = \"Vec::is_empty\")]"

(* Member without the BTreeMap arm: a non-required map falls through to    *)
(* the Option arm.                                                         *)
Member_NoMapArm(key, rust_type, reqs) ==
    IF key \in reqs
    THEN [name |-> key, type_ |-> rust_type, field_annot |-> None]
    ELSE IF starts_with(rust_type, sVec)
    THEN [name |-> key, type_ |-> rust_type, field_annot |-> Some(VecAnnot)]
    ELSE [name |-> key, type_ |-> OptionOf(rust_type), field_annot |-> None]

(* Create member and wrap types correctly. *)
Member(key, rust_type, reqs) ==
    IF key \in reqs
    THEN [name |-> key, type_ |-> rust_type, field_annot |-> None]
    ELSE IF starts_with(rust_type, sBTreeMap)
    THEN [name |-> key, type_ |-> rust_type, field_annot |-> Some(MapAnnot)]
    ELSE IF starts_with(rust_type, sVec)
    THEN [name |-> key, type_ |-> rust_type, field_annot |-> Some(VecAnnot)]
    ELSE [name |-> key, type_ |-> OptionOf(rust_type), field_annot |-> None]

(* The first loop over the properties: the members found so far and the    *)
(* array levels remembered so far, from property i on; the first bail!     *)
(* ends it.                                                                *)
RECURSIVE BuildMembers(_, _, _, _, _, _)
BuildMembers(props, reqs, k, i, members, levels) ==
    IF i > Len(props) THEN Ok([members |-> members, levels |-> levels])
    ELSE LET key == props[i].key
             value == props[i].value
             t == RustType(k, key, value)
         IN  IF ~t.ok THEN t
             ELSE BuildMembers(props, reqs, k, i + 1,
                               Append(members, Member(key, t.v.type, reqs)),
                               IF t.v.level.tag = "Some"
                               THEN levels \cup {<<key, t.v.level.v>>}
                               ELSE levels)

(* IsInlinedMap that also asks for the object to declare no properties. *)
IsInlinedMap_WithoutProperties(node) ==
    /\ node.additional_properties.tag = "Some"
    /\ node.additional_properties.v.tag = "Schema"
    /\ node.additional_properties.v.s.type_ # sEmpty
    /\ node.properties = <<>>

(* An object whose additionalProperties is a schema with a non-empty type  *)
(* is not generated.                                                       *)
IsInlinedMap(node) ==
    /\ node.additional_properties.tag = "Some"
    /\ node.additional_properties.v.tag = "Schema"
    /\ node.additional_properties.v.s.type_ # sEmpty

(* The schema reached from value through `recurse` levels of items, as the *)
(* second loop follows them.                                               *)
RECURSIVE DescendItems(_, _)
DescendItems(inner, recurse) ==
    IF recurse = 0 THEN Ok(inner)
    ELSE IF inner.items.tag = "None" THEN Bail("could not recurse into vec")
    ELSE IF inner.items.v.tag # "Schema" THEN Bail("only handling single type in arrays")
    ELSE DescendItems(inner.items.v.s, recurse - 1)

----------------------------------------------------------------------------
(* The schemas given to the program.                                       *)

(* A JSONSchemaProps value: type_ and properties after unwrap_or_default   *)
(* (an absent type is the empty string, absent properties the empty map);  *)
(* properties in the BTreeMap's key order; required as the set of its      *)
(* entries.                                                                *)
Schema(t, props, req, items, addl, fmt, ios) ==
    [type_ |-> t, properties |-> props, required |-> req, items |-> items,
     additional_properties |-> addl, format |-> fmt,
     x_kubernetes_int_or_string |-> ios]

Prop(key, value) == [key |-> key, value |-> value]

Scalar(t, fmt, ios) == Schema(t, <<>>, {}, None, None, fmt, ios)

kBar == <<"b","a","r">>
kFoo == <<"f","o","o">>
kMetadata == <<"m","e","t","a","d","a","t","a">>
kApiVersion == <<"a","p","i","V","e","r","s","i","o","n">>
kKind == <<"k","i","n","d">>
kSpec == <<"s","p","e","c">>
sNumber == <<"n","u","m","b","e","r">>
sInt8 == <<"i","n","t","8">>

StringNode == Scalar(sString, None, None)
BooleanNode == Scalar(sBoolean, None, None)
IntegerNodes == { Scalar(sInteger, f, None) : f \in {None, Some(sInt32), Some(sInt64), Some(sInt8)} }
IntOrStringNode == Scalar(sEmpty, None, Some(TRUE))
IntOrStringFalseNode == Scalar(sEmpty, None, Some(FALSE))
AmbiguousNode == Scalar(sEmpty, None, None)
NumberNode == Scalar(sNumber, None, None)
EmptyObject == Scalar(sObject, None, None)
ArrayNoItems == Scalar(sArray, None, None)
ArrayOfTuple == Schema(sArray, <<>>, {}, Some(ManySchemas), None, None, None)

(* An array of depth d over element e. *)
RECURSIVE ArrayOf(_, _)
ArrayOf(d, e) ==
    IF d = 0 THEN e
    ELSE Schema(sArray, <<>>, {}, Some(OneSchema(ArrayOf(d - 1, e))), None, None, None)

(* The largest array depth of an input, and the largest number of plain    *)
(* objects above the node the input is about.                              *)
MaxArrayDepth == 2
MaxSpine == 1

ScalarTypes == {StringNode, BooleanNode} \cup IntegerNodes

FullLeaves ==
    ScalarTypes \cup {IntOrStringNode, IntOrStringFalseNode, AmbiguousNode, NumberNode,
                      EmptyObject, ArrayNoItems, ArrayOfTuple}

CoreLeaves == {StringNode, EmptyObject, AmbiguousNode, IntOrStringNode}

(* The shapes of a node that declares properties. *)
Shaped(shape, props, req) ==
    CASE shape = "object" -> Schema(sObject, props, req, None, None, None, None)
      [] shape = "objectBool" ->
            Schema(sObject, props, req, None, Some(BoolProps(TRUE)), None, None)
      [] shape = "mapString" ->
            Schema(sObject, props, req, None, Some(OneSchema(StringNode)), None, None)
      [] shape = "mapInteger" ->
            Schema(sObject, props, req, None,
                   Some(OneSchema(Scalar(sInteger, None, None))), None, None)
      [] shape = "mapIntOrString" ->
            Schema(sObject, props, req, None, Some(OneSchema(IntOrStringNode)), None, None)
      [] shape = "mapAmbiguous" ->
            Schema(sObject, props, req, None, Some(OneSchema(AmbiguousNode)), None, None)
      [] shape = "string" -> Schema(sString, props, req, None, None, None, None)

AllShapes == {"object", "objectBool", "mapString", "mapInteger", "mapIntOrString",
              "mapAmbiguous", "string"}
MainShapes == {"object", "mapString", "string"}
ElementShapes == {"object", "mapString", "string"}

SmallObjects ==
    { Shaped(sh, <<Prop(kBar, c)>>, {}) : sh \in AllShapes, c \in CoreLeaves }
    \cup { Shaped(sh, <<>>, {}) : sh \in AllShapes \ {"string"} }

ElementObjects ==
    { Shaped(sh, <<Prop(kBar, c)>>, {}) : sh \in ElementShapes, c \in {EmptyObject, AmbiguousNode} }
    \cup { Shaped(sh, <<>>, {}) : sh \in ElementShapes \ {"string"} }

Arrays ==
    { ArrayOf(d, e) : d \in 1..MaxArrayDepth, e \in FullLeaves \cup ElementObjects }

PropertyValues == FullLeaves \cup SmallObjects \cup Arrays

TwoProperties ==
    { Shaped("object", <<Prop(kApiVersion, a), Prop(kFoo, b)>>, req) :
        a \in {EmptyObject, StringNode, AmbiguousNode, Shaped("mapString", <<>>, {})},
        b \in {EmptyObject, AmbiguousNode, ArrayOf(1, EmptyObject)},
        req \in {{}, {kFoo}} }

MainNodes ==
    { Shaped(sh, <<Prop(key, v)>>, req) :
        sh \in MainShapes, key \in {kFoo, kMetadata}, v \in PropertyValues,
        req \in {{}, {kFoo, kMetadata}} }
    \cup TwoProperties

(* A main node under at most n plain objects. *)
RECURSIVE Spine(_)
Spine(n) ==
    IF n = 0 THEN MainNodes
    ELSE MainNodes
         \cup { Shaped("object", <<Prop(key, t)>>, {}) :
                  key \in {kMetadata, kSpec}, t \in Spine(n - 1) }
         \cup { Shaped("object",
                         <<Prop(kApiVersion, StringNode), Prop(kKind, EmptyObject),
                           Prop(kMetadata, EmptyObject), Prop(kSpec, t)>>, {}) :
                  t \in Spine(n - 1) }

Inputs == Spine(MaxSpine)

(* crd.spec.names.kind *)
Kinds == { <<"K">>, <<"V","e","c","t","o","r">>, sBTreeMap }

----------------------------------------------------------------------------
(* The program.                                                            *)

(* One call of analyze: its arguments, where it stands, and its            *)
(* array_recurse_level.  level is a u8; the inputs nest far fewer than 255 *)
(* levels, so level + 1 does not overflow.  path is the property names     *)
(* from the root schema to the node.                                       *)
Frame(node, root, level, path) ==
    [schema |-> node, root |-> root, level |-> level, pc |-> "enter", i |-> 1,
     array_recurse_level |-> {}, path |-> path]

Top == stack[Len(stack)]

Pop == SubSeq(stack, 1, Len(stack) - 1)

(* The frame on top with the second loop moved past its current property. *)
Advanced == [Top EXCEPT !.i = @ + 1]

Running == stack # <<>> /\ err = None

Looping == Running /\ Top.pc = "recurse" /\ Top.i <= Len(Top.schema.properties)

CurKey == Top.schema.properties[Top.i].key

CurValue == Top.schema.properties[Top.i].value

(* Ignored without the test of the level. *)
Ignored_AtAnyLevel == CurKey \in IGNORED_KEYS

Ignored == Top.level = 0 /\ CurKey \in IGNORED_KEYS

Remembered == { p \in Top.array_recurse_level : p[1] = CurKey }

(* One call of analyze, as the properties below read it: the path of       *)
(* property names to the node, the node, its level, how it was reached and *)
(* results as it was when the call began.                                  *)
CallRecord(node, level, path, via) ==
    [path |-> path, schema |-> node, level |-> level, via |-> via, at |-> results]

Call(node, root, level, path, via) ==
    /\ stack' = Append(SubSeq(stack, 1, Len(stack) - 1), Advanced)
                  \o <<Frame(node, root, level, path)>>
    /\ calls' = Append(calls, CallRecord(node, level, path, via))

Init ==
    /\ schema \in Inputs
    /\ kind \in Kinds
    /\ mainpc = "start"
    /\ stack = <<>>
    /\ results = <<>>
    /\ err = None
    /\ printed = <<>>
    /\ calls = <<>>
    /\ origin = <<>>

(* main: analyze(schema, &kind, "", 0, &mut results) *)
MainAnalyze ==
    /\ mainpc = "start"
    /\ mainpc' = "analyze"
    /\ stack' = <<Frame(schema, <<>>, 0, <<>>)>>
    /\ calls' = Append(calls, CallRecord(schema, 0, <<>>, "main"))
    /\ UNCHANGED <<schema, kind, results, err, printed, origin>>

(* analyze on an object that is a map: return Ok(()) at once. *)
EnterInlinedMap ==
    /\ Running /\ Top.pc = "enter"
    /\ Top.schema.type_ = sObject
    /\ IsInlinedMap(Top.schema)
    /\ stack' = Pop
    /\ UNCHANGED <<schema, kind, mainpc, results, err, printed, calls, origin>>

(* analyze on an object: the members, then the struct pushed. *)
EnterObject ==
    /\ Running /\ Top.pc = "enter"
    /\ Top.schema.type_ = sObject
    /\ ~IsInlinedMap(Top.schema)
    /\ LET r == BuildMembers(Top.schema.properties, Top.schema.required, kind, 1, <<>>, {})
       IN  /\ r.ok
           /\ results' = Append(results,
                                [name |-> StructName(kind, Top.root),
                                 members |-> r.v.members,
                                 level |-> Top.level])
           /\ origin' = Append(origin, Top.path)
           /\ stack' = [stack EXCEPT ![Len(stack)] =
                           [@ EXCEPT !.pc = "recurse",
                                     !.array_recurse_level = r.v.levels]]
    /\ UNCHANGED <<schema, kind, mainpc, err, printed, calls>>

(* EnterObjectBail with the struct pushed before its members are resolved. *)
EnterObjectBail_StructPushedFirst ==
    /\ Running /\ Top.pc = "enter"
    /\ Top.schema.type_ = sObject
    /\ ~IsInlinedMap(Top.schema)
    /\ LET r == BuildMembers(Top.schema.properties, Top.schema.required, kind, 1, <<>>, {})
       IN  /\ ~r.ok
           /\ err' = Some(r.e)
    /\ results' = Append(results,
                         [name |-> StructName(kind, Top.root), members |-> <<>>,
                          level |-> Top.level])
    /\ origin' = Append(origin, Top.path)
    /\ stack' = Pop
    /\ UNCHANGED <<schema, kind, mainpc, printed, calls>>

(* analyze on an object: a member's type bails, and analyze returns Err. *)
EnterObjectBail ==
    /\ Running /\ Top.pc = "enter"
    /\ Top.schema.type_ = sObject
    /\ ~IsInlinedMap(Top.schema)
    /\ LET r == BuildMembers(Top.schema.properties, Top.schema.required, kind, 1, <<>>, {})
       IN  /\ ~r.ok
           /\ err' = Some(r.e)
    /\ stack' = Pop
    /\ UNCHANGED <<schema, kind, mainpc, results, printed, calls, origin>>

(* analyze on a schema that is no object: no struct, on to the second loop. *)
EnterNotObject ==
    /\ Running /\ Top.pc = "enter"
    /\ Top.schema.type_ # sObject
    /\ stack' = [stack EXCEPT ![Len(stack)] = [@ EXCEPT !.pc = "recurse"]]
    /\ UNCHANGED <<schema, kind, mainpc, results, err, printed, calls, origin>>

(* Second loop: metadata, apiVersion and kind at level 0 are skipped. *)
RecurseIgnored ==
    /\ Looping /\ Ignored
    /\ stack' = [stack EXCEPT ![Len(stack)] = Advanced]
    /\ UNCHANGED <<schema, kind, mainpc, results, err, printed, calls, origin>>

(* Second loop: an object property is analyzed one level down. *)
RecurseObject ==
    /\ Looping /\ ~Ignored
    /\ CurValue.type_ = sObject
    /\ Call(CurValue, uppercase_first_letter(CurKey), Top.level + 1,
            Append(Top.path, CurKey), "object")
    /\ UNCHANGED <<schema, kind, mainpc, results, err, printed, origin>>

(* Second loop: an array property whose level was remembered: the schema   *)
(* under that many items is analyzed one level down.                       *)
RecurseArray ==
    /\ Looping /\ ~Ignored
    /\ CurValue.type_ = sArray
    /\ Remembered # {}
    /\ LET recurse == (CHOOSE p \in Remembered : TRUE)[2]
           inner == DescendItems(CurValue, recurse)
       IN  IF inner.ok
           THEN /\ Call(inner.v, uppercase_first_letter(CurKey), Top.level + 1,
                        Append(Top.path, CurKey), "array")
                /\ err' = err
           ELSE /\ err' = Some(inner.e)
                /\ stack' = Pop
                /\ calls' = calls
    /\ UNCHANGED <<schema, kind, mainpc, results, printed, origin>>

(* Second loop: an array property with no remembered level is passed over. *)
RecurseArrayUnknown ==
    /\ Looping /\ ~Ignored
    /\ CurValue.type_ = sArray
    /\ Remembered = {}
    /\ stack' = [stack EXCEPT ![Len(stack)] = Advanced]
    /\ UNCHANGED <<schema, kind, mainpc, results, err, printed, calls, origin>>

(* Second loop: any other property is not recursed into. *)
RecurseOther ==
    /\ Looping /\ ~Ignored
    /\ CurValue.type_ \notin {sObject, sArray}
    /\ stack' = [stack EXCEPT ![Len(stack)] = Advanced]
    /\ UNCHANGED <<schema, kind, mainpc, results, err, printed, calls, origin>>

(* The second loop is over: analyze returns Ok(()). *)
Return ==
    /\ Running /\ Top.pc = "recurse"
    /\ Top.i > Len(Top.schema.properties)
    /\ stack' = Pop
    /\ UNCHANGED <<schema, kind, mainpc, results, err, printed, calls, origin>>

(* analyze(...)? in analyze: the callee's Err is returned by the caller. *)
Propagate ==
    /\ stack # <<>> /\ err # None
    /\ stack' = Pop
    /\ UNCHANGED <<schema, kind, mainpc, results, err, printed, calls, origin>>

(* What main prints for the structs: nothing for level 0. *)
RECURSIVE PrintStructs(_, _)
PrintStructs(rs, i) ==
    IF i > Len(rs) THEN <<>>
    ELSE LET s == rs[i]
         IN  (IF s.level = 0 THEN <<>>
              ELSE << [derive |-> IF s.level = 1 /\ ends_with(s.name, sSpec)
                                  THEN "CustomResource" ELSE "plain",
                       name |-> s.name,
                       members |-> s.members] >>)
             \o PrintStructs(rs, i + 1)

(* main after analyze returned Ok: the prelude, then the structs. *)
MainPrint ==
    /\ mainpc = "analyze" /\ stack = <<>> /\ err = None
    /\ printed' = <<[derive |-> "prelude", name |-> <<>>, members |-> <<>>]>>
                    \o PrintStructs(results, 1)
    /\ mainpc' = "done"
    /\ UNCHANGED <<schema, kind, stack, results, err, calls, origin>>

(* analyze(...)? in main: main returns the Err and prints nothing. *)
MainFail ==
    /\ mainpc = "analyze" /\ stack = <<>> /\ err # None
    /\ mainpc' = "failed"
    /\ UNCHANGED <<schema, kind, stack, results, err, printed, calls, origin>>

Next ==
    \/ MainAnalyze
    \/ EnterInlinedMap
    \/ EnterObject
    \/ EnterObjectBail
    \/ EnterNotObject
    \/ RecurseIgnored
    \/ RecurseObject
    \/ RecurseArray
    \/ RecurseArrayUnknown
    \/ RecurseOther
    \/ Return
    \/ Propagate
    \/ MainPrint
    \/ MainFail

Spec == Init /\ [][Next]_vars

----------------------------------------------------------------------------
(* What the properties are stated with.                                    *)

Range(f) == { f[i] : i \in DOMAIN f }

Last(q) == q[Len(q)]

IsPrefix(p, q) == Len(p) <= Len(q) /\ SubSeq(q, 1, Len(p)) = p

Lower == <<"a","b","c","d","e","f","g","h","i","j","k","l","m",
           "n","o","p","q","r","s","t","u","v","w","x","y","z">>
Upper == <<"A","B","C","D","E","F","G","H","I","J","K","L","M",
           "N","O","P","Q","R","S","T","U","V","W","X","Y","Z">>

(* The name with its first character in upper case, the rest unchanged. *)
Capitalize(name) ==
    IF name = <<>> THEN <<>>
    ELSE IF \E n \in 1..26 : Lower[n] = name[1]
    THEN <<Upper[CHOOSE n \in 1..26 : Lower[n] = name[1]]>> \o Tail(name)
    ELSE name

(* Capitalize(p1) + ... + Capitalize(pn) *)
RECURSIVE PascalPath(_)
PascalPath(path) ==
    IF path = <<>> THEN <<>> ELSE Capitalize(Head(path)) \o PascalPath(Tail(path))

Successful == mainpc = "done"

Records == 1..Len(results)

(* The node record i was generated from. *)
NodeOf(i) == (CHOOSE c \in Range(calls) : c.path = origin[i]).schema

Fields(i) == 1..Len(results[i].members)

FieldKey(i, j) == NodeOf(i).properties[j].key

FieldSchema(i, j) == NodeOf(i).properties[j].value

FieldRequired(i, j) == FieldKey(i, j) \in NodeOf(i).required

(* The number of items levels from an array node to its first non-array    *)
(* element, and that element; -1 when an items is missing or a tuple.      *)
RECURSIVE ItemsDepth(_)
ItemsDepth(node) ==
    IF node.type_ # sArray THEN 0
    ELSE IF node.items.tag = "None" \/ node.items.v.tag # "Schema" THEN -1
    ELSE LET d == ItemsDepth(node.items.v.s) IN IF d < 0 THEN -1 ELSE d + 1

RECURSIVE UltimateElement(_)
UltimateElement(node) ==
    IF node.type_ = sArray /\ node.items.tag = "Some" /\ node.items.v.tag = "Schema"
    THEN UltimateElement(node.items.v.s)
    ELSE node

IsScalarSchema(node) == node.type_ \in {sString, sBoolean, sInteger}

(* The resolved type of a scalar: text, boolean, or the integer its format names. *)
ScalarName(node) ==
    CASE node.type_ = sString -> <<"S","t","r","i","n","g">>
      [] node.type_ = sBoolean -> <<"b","o","o","l">>
      [] node.type_ = sInteger /\ node.format = Some(sInt32) -> <<"i","3","2">>
      [] node.type_ = sInteger /\ node.format = Some(sInt64) -> <<"i","6","4">>
      [] node.type_ = sInteger -> <<"u","s","i","z","e">>

(* d sequence wrappers around t. *)
RECURSIVE Sequences(_, _)
Sequences(d, t) ==
    IF d = 0 THEN t ELSE <<"V","e","c","<">> \o Sequences(d - 1, t) \o <<">">>

HasSchemaAdditional(node) ==
    node.additional_properties.tag = "Some" /\ node.additional_properties.v.tag = "Schema"

(* A property whose resolved type is a map / a sequence. *)
IsMapProperty(v) == v.type_ = sObject /\ HasSchemaAdditional(v)

IsSequenceProperty(v) == v.type_ = sArray

IsOptionWrapped(t) == starts_with(t, <<"O","p","t","i","o","n","<">>)

(* Records appended for the node at path. *)
RecordsFor(path) == { i \in Records : origin[i] = path }

(* Records appended for the node at path or for a node beneath it. *)
RecordsUnder(path) == { i \in Records : IsPrefix(path, origin[i]) }

----------------------------------------------------------------------------
C2_NestedSequences ==
    \A i \in Records : \A j \in Fields(i) :
        LET v == FieldSchema(i, j)
        IN  (v.type_ = sArray /\ ItemsDepth(v) >= 1 /\ IsScalarSchema(UltimateElement(v)))
            => /\ results[i].members[j].type_
                    = Sequences(ItemsDepth(v), ScalarName(UltimateElement(v)))
               /\ array_recurse_for_type(v, kind, FieldKey(i, j), 1).v.level = ItemsDepth(v)

(* C3: a required field has its resolved type, unwrapped and without       *)
(* annotation; a non-required field whose resolved type is a scalar or a   *)
(* record reference is Option<resolved type> without annotation, whatever  *)
(* the root type name.                                                     *)
C3_OptionalWrapping ==
    \A i \in Records : \A j \in Fields(i) :
        LET v == FieldSchema(i, j)
            m == results[i].members[j]
            resolved == RustType(kind, FieldKey(i, j), v).v.type
        IN  /\ FieldRequired(i, j) => m.type_ = resolved /\ m.field_annot = None
            /\ (~FieldRequired(i, j) /\ ~IsMapProperty(v) /\ ~IsSequenceProperty(v))
                 => m.type_ = OptionOf(resolved) /\ m.field_annot = None

(* C4: a non-required map or sequence field keeps its resolved type, is    *)
(* not wrapped in Option and carries the annotation of its container kind; *)
(* a required map or sequence field carries no annotation.                 *)
C4_ContainerFields ==
    \A i \in Records : \A j \in Fields(i) :
        LET v == FieldSchema(i, j)
            m == results[i].members[j]
            resolved == RustType(kind, FieldKey(i, j), v).v.type
        IN  /\ (IsMapProperty(v) /\ ~FieldRequired(i, j))
                 => /\ m.type_ = resolved
                    /\ ~IsOptionWrapped(m.type_)
                    /\ m.field_annot = Some(MapAnnot)
            /\ (IsSequenceProperty(v) /\ ~FieldRequired(i, j))
                 => /\ m.type_ = resolved
                    /\ ~IsOptionWrapped(m.type_)
                    /\ m.field_annot = Some(VecAnnot)
            /\ ((IsMapProperty(v) \/ IsSequenceProperty(v)) /\ FieldRequired(i, j))
                 => m.field_annot = None

(* Reached: a record with a non-required map field and a non-required sequence field. *)
C4_Witness ==
    /\ Successful
    /\ \E i \in Records : \E j, l \in Fields(i) :
          /\ IsMapProperty(FieldSchema(i, j)) /\ ~FieldRequired(i, j)
          /\ results[i].members[j].field_annot = Some(MapAnnot)
          /\ IsSequenceProperty(FieldSchema(i, l)) /\ ~FieldRequired(i, l)
          /\ results[i].members[l].field_annot = Some(VecAnnot)

(* An object whose additionalProperties is a schema with a non-empty type. *)
TypedMap(node) ==
    /\ node.type_ = sObject
    /\ HasSchemaAdditional(node)
    /\ node.additional_properties.v.s.type_ # <<>>

(* A typed map that declares no properties. *)
PureMap(node) == TypedMap(node) /\ node.properties = <<>>

(* C5: in a successful run, exactly one record is appended for a node      *)
(* analyze is invoked on if and only if it is an object and no pure map (a *)
(* typed map without properties); a typed map that declares properties     *)
(* gets one record.                                                        *)
C5_PureMapOnly ==
    Successful =>
        \A c \in Range(calls) :
            Cardinality(RecordsFor(c.path))
                = IF c.schema.type_ = sObject /\ ~PureMap(c.schema) THEN 1 ELSE 0

(* C5 as amended: exactly one record is appended if and only if the node   *)
(* is an object whose additionalProperties is not a schema with a          *)
(* non-empty type; a typed map gets no record whether or not it declares   *)
(* properties, and nothing beneath it gets one.                            *)
C5_TypedMapNoRecord ==
    Successful =>
        \A c \in Range(calls) :
            /\ Cardinality(RecordsFor(c.path))
                 = IF c.schema.type_ = sObject /\ ~TypedMap(c.schema) THEN 1 ELSE 0
            /\ TypedMap(c.schema) => RecordsUnder(c.path) = {}

(* Reached: a successful run that analyzed a typed map declaring an object property. *)
C5_Witness ==
    /\ Successful
    /\ \E c \in Range(calls) :
          /\ TypedMap(c.schema)
          /\ \E j \in DOMAIN c.schema.properties :
                c.schema.properties[j].value.type_ = sObject
          /\ RecordsUnder(c.path) = {}
          /\ Len(results) >= 2

(* C6: when a field of an object node raises a fatal error, the list is as *)
(* it was when the call for that node began, no enclosing call appends     *)
(* anything more, and main prints nothing, neither the prelude nor a       *)
(* record already in the list.                                             *)
C6_NoPartialOutput ==
    err # None =>
        /\ results = Last(calls).at
        /\ RecordsUnder(Last(calls).path) = {}
        /\ printed = <<>>
        /\ mainpc # "done"

(* Reached: a failed run whose failing call is two properties down, with records in the list. *)
C6_Witness ==
    /\ mainpc = "failed"
    /\ Len(Last(calls).path) >= 2
    /\ \E i \in Records : results[i].level >= 1
    /\ printed = <<>>

(* A node that declares a property of empty type without the int-or-string *)
(* marker.                                                                 *)
IsAmbiguous(v) == v.type_ = <<>> /\ v.x_kubernetes_int_or_string = None

DeclaresAmbiguous(node) ==
    \E j \in DOMAIN node.properties : IsAmbiguous(node.properties[j].value)

RECURSIVE ContainsAmbiguous(_)
ContainsAmbiguous(node) ==
    \/ DeclaresAmbiguous(node)
    \/ \E j \in DOMAIN node.properties : ContainsAmbiguous(node.properties[j].value)
    \/ /\ node.items.tag = "Some" /\ node.items.v.tag = "Schema"
       /\ ContainsAmbiguous(node.items.v.s)

(* C7: for an input that contains, anywhere, a declared property of empty  *)
(* type without the marker, analyze on the root never returns success,     *)
(* whatever the declaring node is and wherever it sits.                    *)
C7_AnywhereFails == ContainsAmbiguous(schema) => ~Successful

(* C7 as amended: when analyze is invoked on an object node that is no     *)
(* typed map and that declares such a property, the run returns a fatal    *)
(* error and never success (the empty-type error when that property is the *)
(* node's first), and no record is appended for the node or beneath it.    *)
C7_ObjectDeclarerFails ==
    \A c \in Range(calls) :
        (c.schema.type_ = sObject /\ ~TypedMap(c.schema) /\ DeclaresAmbiguous(c.schema))
        => /\ ~Successful
           /\ RecordsUnder(c.path) = {}
           /\ stack = <<>> => err # None
           /\ (stack = <<>> /\ IsAmbiguous(c.schema.properties[1].value))
                => err = Some("unknown empty dict type")

(* Reached: a failed run whose failing object node is an array element. *)
C7_Witness ==
    /\ mainpc = "failed"
    /\ \E c \in Range(calls) :
          /\ c.via = "array"
          /\ c.schema.type_ = sObject /\ DeclaresAmbiguous(c.schema)
          /\ err = Some("unknown empty dict type")

(* C8: when the ultimate element of an array property is a scalar, no      *)
(* record is appended on account of that property, even if the scalar      *)
(* element declares properties: the walker recurses into the ultimate      *)
(* element only when it is an object.                                      *)
C8_ScalarElementNoRecord ==
    \A c \in Range(calls) :
        (c.via = "array" /\ c.schema.type_ # sObject) => RecordsUnder(c.path) = {}

Reserved == { kMetadata, kApiVersion, kKind }

(* C9: at depth 0 the properties metadata, apiVersion and kind are never   *)
(* recursed into, so no record is appended for them or beneath them, while *)
(* they are fields of the depth-0 record; at depth >= 1 properties of      *)
(* those names are recursed into like any other.                           *)
C9_ReservedKeys ==
    /\ \A c \in Range(calls) : Len(c.path) >= 1 => c.path[1] \notin Reserved
    /\ \A i \in Records :
          /\ Len(origin[i]) >= 1 => origin[i][1] \notin Reserved
          /\ origin[i] = <<>> =>
                /\ Len(results[i].members) = Len(schema.properties)
                /\ \A j \in Fields(i) : results[i].members[j].name = schema.properties[j].key
    /\ Successful =>
          \A c \in Range(calls) :
              (c.level >= 1 /\ ~TypedMap(c.schema)) =>
                  \A j \in DOMAIN c.schema.properties :
                      c.schema.properties[j].value.type_ = sObject =>
                          \E c2 \in Range(calls) :
                              /\ c2.path = Append(c.path, c.schema.properties[j].key)
                              /\ c2.schema = c.schema.properties[j].value
                              /\ c2.level = c.level + 1

(* Reached: a successful run with metadata skipped at depth 0 and a reserved name recursed at depth 1. *)
C9_Witness ==
    /\ Successful
    /\ \E j \in DOMAIN schema.properties :
          /\ schema.properties[j].key = kMetadata
          /\ schema.properties[j].value.type_ = sObject
    /\ \E i \in Records :
          /\ origin[i] = <<>>
          /\ \E j \in Fields(i) : results[i].members[j].name = kMetadata
    /\ \E i \in Records : Len(origin[i]) = 2 /\ origin[i][2] \in Reserved

(* A field type that names the record N, directly or as a sequence element. *)
RefersTo(t, N) ==
    \/ t = N
    \/ t = <<"O","p","t","i","o","n","<">> \o N \o <<">">>
    \/ \E d \in 1..(MaxArrayDepth + 1) : t = Sequences(d, N)

(* C10: after a successful run, for each property of a node that produced  *)
(* a record (the reserved names at depth 0 aside), a record generated from *)
(* the property's schema or its ultimate array element is in the list if   *)
(* and only if the property's field type refers to a record name.          *)
C10_FieldsAndRecordsAgree ==
    Successful =>
        \A i \in Records : \A j \in Fields(i) :
            ~(origin[i] = <<>> /\ FieldKey(i, j) \in Reserved) =>
                (RecordsFor(Append(origin[i], FieldKey(i, j))) # {}
                   <=> RefersTo(results[i].members[j].type_,
                                kind \o Capitalize(FieldKey(i, j))))

====
